---- MODULE Spec2Model ----
(***************************************************************************)
(* tio::net::UnixDatagram (src/net/uds/datagram.rs): the async facade over *)
(* a non-blocking Unix datagram socket.  A UnixDatagram is an              *)
(* Arc<Watcher<mio::net::UnixDatagram>>; every async operation is          *)
(* future::poll_fn over Watcher::poll_read_with / poll_write_with.         *)
(*                                                                         *)
(* The kernel socket and the Watcher are not part of datagram.rs; they are *)
(* modelled as the documentation in datagram.rs and the specification      *)
(* describe them.                                                          *)
(***************************************************************************)
EXTENDS Integers, Sequences, FiniteSets, TLC

\* ---------------------------------------------------------------- bounds
NSock == 3          \* kernel descriptors that may be created in one run
QCap == 1           \* datagrams a receive queue holds before send would block
MaxWakes == 1       \* readiness wakes one operation may receive
MaxOwners == 2      \* live handles (Arc strong count) of one socket
MaxMsgs == 2        \* datagrams sent in a scenario that keeps the history

Sock == 1..NSock
\* two concurrently scheduled tasks
Task == {1, 2}
Path == {"pA", "pB"}
Unnamed == "unnamed"
Addr == Path \cup {Unnamed}
\* payloads: byte sequences, one a proper prefix of the other
Msg == {<<1>>, <<1, 2>>}
\* receive buffers: as long as the longest payload, and shorter
Buffer == <<0, 0>>
Bufs == {<<0>>, Buffer}

VARIABLES
    fd,        \* fd[s]: "free" (never created), "open", "closed"
    local,     \* local[s]: the address the kernel socket is bound to
    peer,      \* peer[s]: the socket s is connected to, 0 when unconnected
    shutRd,    \* shutRd[s]: the read half is shut down
    shutWr,    \* shutWr[s]: the write half is shut down
    queue,     \* queue[s]: datagrams waiting to be received, oldest first
    owners,    \* owners[s]: strong count of the Arc<Watcher> wrapping s
    handles,   \* handles[s]: live UnixDatagram values that wrap s
    closes,    \* closes[s]: how many times the descriptor was closed
    readers,   \* readers[s]: task registered for read-readiness, 0 when none
    writers,   \* writers[s]: task registered for write-readiness, 0 when none
    asked,     \* asked[s]: the halves shutdown was called for on s
    hist,      \* when hist.on: payloads sent and received on each socket, in
               \* order, how each socket was made, the last synchronous call
    task       \* task[t]: the async operation task t is awaiting

kvars == <<fd, local, peer, shutRd, shutWr, queue>>
hvars == <<owners, handles, closes, asked>>
wvars == <<readers, writers>>
vars == <<fd, local, peer, shutRd, shutWr, queue, owners, handles, closes, readers, writers,
          asked, hist, task>>

\* ------------------------------------------------------------- io::Result
NoRes == [tag |-> "None", err |-> "", n |-> 0, data |-> <<>>, addr |-> "none"]
Ok(n, d, a) == [tag |-> "Ok", err |-> "", n |-> n, data |-> d, addr |-> a]
Err(e) == [tag |-> "Err", err |-> e, n |-> 0, data |-> <<>>, addr |-> "none"]
WouldBlock == Err("WouldBlock")
IsErr(r) == r.tag = "Err"
IsOk(r) == r.tag = "Ok"

\* task[t] when t awaits nothing
Idle == [st |-> "idle", kind |-> "none", s |-> 0, buf |-> <<>>, dest |-> "none",
         res |-> NoRes, attempts |-> 0, wakes |-> 0, shut |-> "no"]

\* no synchronous call made yet; calls not recorded
NoCall == [op |-> "none", s |-> 0, arg |-> "none", res |-> NoRes, tick |-> FALSE]
Unrecorded == [NoCall EXCEPT !.op = "off"]

\* the history, kept or not
Hist(on) ==
    [on |-> on, sent |-> [s \in Sock |-> <<>>], got |-> [s \in Sock |-> <<>>],
     made |-> [s \in Sock |-> "none"], ret |-> Unrecorded]

\* the history h after the synchronous call op(arg) on s returned r
Called(h, op, s, arg, r) ==
    IF h.ret.op # "off"
    THEN [h EXCEPT !.ret = [op |-> op, s |-> s, arg |-> arg, res |-> r,
                            tick |-> ~h.ret.tick]]
    ELSE h
Returned(h, op, s, r) == Called(h, op, s, "none", r)

\* the history h after socket s was made by the constructor op
Made(h, op, s) == IF h.on THEN [h EXCEPT !.made[s] = op] ELSE h

\* nothing constructed yet
InitNone ==
    /\ fd = [s \in Sock |-> "free"]
    /\ local = [s \in Sock |-> Unnamed]
    /\ peer = [s \in Sock |-> 0]
    /\ shutRd = [s \in Sock |-> FALSE]
    /\ shutWr = [s \in Sock |-> FALSE]
    /\ queue = [s \in Sock |-> <<>>]
    /\ owners = [s \in Sock |-> 0]
    /\ handles = [s \in Sock |-> 0]
    /\ closes = [s \in Sock |-> 0]
    /\ readers = [s \in Sock |-> 0]
    /\ writers = [s \in Sock |-> 0]
    /\ asked = [s \in Sock |-> {}]
    /\ task = [t \in Task |-> Idle]

Init == InitNone /\ hist = Hist(FALSE)

\* ------------------------------------------------ the kernel socket (mio)
\* sockets whose socket file exists at path p (the file outlives close)
Bound(p) == {s \in Sock : fd[s] # "free" /\ local[s] = p}
\* the open socket bound at p, 0 when there is none
Lookup(p) ==
    LET L == {s \in Sock : fd[s] = "open" /\ local[s] = p}
    IN IF L = {} THEN 0 ELSE CHOOSE s \in L : TRUE
Free == {s \in Sock : fd[s] = "free"}
\* descriptors are handed out lowest first
NextFd == CHOOSE s \in Free : \A r \in Free : s <= r

\* a datagram socket accepts a datagram from s when it is unconnected or
\* connected to s
unix_may_send(s, d) == peer[d] = 0 \/ peer[d] = s

\* socket(2) and bind(2): no descriptor left, path in use
inner_bind(path) ==
    IF Free = {} THEN Err("TooManyFiles")
    ELSE IF Bound(path) # {} THEN Err("AddrInUse")
    ELSE Ok(NextFd, <<>>, path)
inner_unbound == IF Free = {} THEN Err("TooManyFiles") ELSE Ok(NextFd, <<>>, Unnamed)
\* socketpair(2) allocates both descriptors or none
inner_pair == IF Cardinality(Free) < 2 THEN Err("TooManyFiles") ELSE Ok(NextFd, <<>>, Unnamed)

\* outcome of one kernel call: its io::Result and the receive queues after it
KOut(r, q) == [res |-> r, queue |-> q]

\* queue the datagram buf of sender s on socket d
Deliver(s, d, buf) ==
    IF fd[d] # "open" THEN KOut(Err("ConnectionRefused"), queue)
    ELSE IF shutRd[d] THEN KOut(Err("BrokenPipe"), queue)
    ELSE IF ~unix_may_send(s, d) THEN KOut(Err("PermissionDenied"), queue)
    ELSE IF Len(queue[d]) >= QCap THEN KOut(WouldBlock, queue)
    ELSE KOut(Ok(Len(buf), <<>>, "none"),
              [queue EXCEPT ![d] = Append(@, [data |-> buf, from |-> s])])

\* connect(2) of a datagram socket: the path must lead to an open socket
\* that accepts datagrams of s
inner_connect(s, path) ==
    IF Lookup(path) = 0 THEN Err("NotFound")
    ELSE IF ~unix_may_send(s, Lookup(path)) THEN Err("PermissionDenied")
    ELSE Ok(0, <<>>, "none")

\* getsockname(2), getpeername(2)
inner_local_addr(s) == Ok(0, <<>>, local[s])
inner_peer_addr(s) ==
    IF peer[s] = 0 THEN Err("NotConnected") ELSE Ok(0, <<>>, local[peer[s]])

inner_send(s, buf) ==
    IF shutWr[s] THEN KOut(Err("BrokenPipe"), queue)
    ELSE IF peer[s] = 0 THEN KOut(Err("NotConnected"), queue)
    ELSE Deliver(s, peer[s], buf)

inner_send_to(s, buf, path) ==
    IF shutWr[s] THEN KOut(Err("BrokenPipe"), queue)
    ELSE IF Lookup(path) = 0 THEN KOut(Err("NotFound"), queue)
    ELSE Deliver(s, Lookup(path), buf)

\* the bytes of a datagram the buffer buf has room for; the rest is lost
Taken(buf, data) == IF Len(data) <= Len(buf) THEN Len(data) ELSE Len(buf)
\* the buffer buf after the datagram data was copied into it
Filled(buf, data) ==
    [i \in 1..Len(buf) |-> IF i <= Taken(buf, data) THEN data[i] ELSE buf[i]]

\* a queued datagram is handed out first, whole or cut to the buffer; an
\* empty queue of a socket whose read half is shut down reads as end of
\* stream: Ok(0)
inner_recv_from(s, buf) ==
    IF queue[s] # <<>>
    THEN KOut(Ok(Taken(buf, Head(queue[s]).data), Filled(buf, Head(queue[s]).data),
                 local[Head(queue[s]).from]),
              [queue EXCEPT ![s] = Tail(@)])
    ELSE IF shutRd[s] THEN KOut(Ok(0, buf, Unnamed), queue)
    ELSE KOut(WouldBlock, queue)

inner_recv(s, buf) ==
    IF queue[s] # <<>>
    THEN KOut(Ok(Taken(buf, Head(queue[s]).data), Filled(buf, Head(queue[s]).data),
                 "none"),
              [queue EXCEPT ![s] = Tail(@)])
    ELSE IF shutRd[s] THEN KOut(Ok(0, buf, "none"), queue)
    ELSE KOut(WouldBlock, queue)

\* ------------------------------------------------------------ the Watcher
\* outcome of one poll of an operation
POut(p, r, q, rd, wr, c) ==
    [poll |-> p, res |-> r, queue |-> q, readers |-> rd, writers |-> wr, calls |-> c]

\* attempt k; on would-block register task t for read-readiness
poll_read_with(t, s, k) ==
    IF k.res = WouldBlock
    THEN POut("Pending", NoRes, k.queue, [readers EXCEPT ![s] = t], writers, 1)
    ELSE POut("Ready", k.res, k.queue, readers, writers, 1)

\* attempt k; on would-block register task t for write-readiness
poll_write_with(t, s, k) ==
    IF k.res = WouldBlock
    THEN POut("Pending", NoRes, k.queue, readers, [writers EXCEPT ![s] = t], 1)
    ELSE POut("Ready", k.res, k.queue, readers, writers, 1)

\* ------------------------------------------- UnixDatagram: async operations
\* variant: the kernel call is made a second time before suspending
recv_from_twice(t, s, buf) ==
    IF inner_recv_from(s, buf).res = WouldBlock
    THEN POut("Pending", NoRes, queue, [readers EXCEPT ![s] = t], writers, 2)
    ELSE poll_read_with(t, s, inner_recv_from(s, buf))

\* variant: the address of the sender is not passed on
recv_from_as_recv(t, s, buf) == poll_read_with(t, s, inner_recv(s, buf))

recv_from(t, s, buf) == poll_read_with(t, s, inner_recv_from(s, buf))

\* variant: the kernel call is made outside the Watcher
recv_unwatched(t, s, buf) ==
    POut("Ready", inner_recv(s, buf).res, inner_recv(s, buf).queue, readers, writers, 1)

\* variant: the receive waits for write-readiness
recv_on_write(t, s, buf) == poll_write_with(t, s, inner_recv(s, buf))

recv(t, s, buf) == poll_read_with(t, s, inner_recv(s, buf))

\* variant: the send waits for read-readiness
send_to_on_read(t, s, buf, path) == poll_read_with(t, s, inner_send_to(s, buf, path))

send_to(t, s, buf, path) == poll_write_with(t, s, inner_send_to(s, buf, path))

\* variant: every error of the kernel is retried, not only would-block
send_retry_all(t, s, buf) ==
    IF IsErr(inner_send(s, buf).res)
    THEN POut("Pending", NoRes, queue, readers, [writers EXCEPT ![s] = t], 1)
    ELSE poll_write_with(t, s, inner_send(s, buf))

send(t, s, buf) == poll_write_with(t, s, inner_send(s, buf))

RecvKinds == {"recv_from", "recv"}
SendKinds == {"send_to", "send"}
Kinds == RecvKinds \cup SendKinds

\* the kernel call the operation o makes when polled
Kernel(o) ==
    CASE o.kind = "recv_from" -> inner_recv_from(o.s, o.buf)
      [] o.kind = "recv" -> inner_recv(o.s, o.buf)
      [] o.kind = "send_to" -> inner_send_to(o.s, o.buf, o.dest)
      [] o.kind = "send" -> inner_send(o.s, o.buf)

\* one poll of the future o that task t awaits
PollOp(t, o) ==
    CASE o.kind = "recv_from" -> recv_from(t, o.s, o.buf)
      [] o.kind = "recv" -> recv(t, o.s, o.buf)
      [] o.kind = "send_to" -> send_to(t, o.s, o.buf, o.dest)
      [] o.kind = "send" -> send(t, o.s, o.buf)

\* ------------------------------------------- UnixDatagram: construction
\* UnixDatagram::new: one Arc<Watcher> around the kernel socket s
new(s, addr, p) ==
    /\ fd' = [fd EXCEPT ![s] = "open"]
    /\ local' = [local EXCEPT ![s] = addr]
    /\ peer' = [peer EXCEPT ![s] = p]
    /\ owners' = [owners EXCEPT ![s] = 1]
    /\ handles' = [handles EXCEPT ![s] = 1]

\* what a failed call leaves alone
NoObject == UNCHANGED <<fd, local, peer, owners, handles>>

\* variant: the descriptor of a failed bind stays open
bind_leaky(path) ==
    /\ IF IsOk(inner_bind(path))
       THEN /\ new(NextFd, path, 0)
            /\ hist' = Made(Returned(hist, "bind", NextFd, inner_bind(path)), "bind", NextFd)
       ELSE /\ IF Free # {}
               THEN fd' = [fd EXCEPT ![NextFd] = "open"] /\ UNCHANGED <<local, peer, owners, handles>>
               ELSE NoObject
            /\ hist' = Returned(hist, "bind", 0, inner_bind(path))
    /\ UNCHANGED <<shutRd, shutWr, queue, closes, readers, writers, asked, task>>

\* bind(path)?: an error of the kernel (path in use, no descriptor left)
\* returns before new() and leaves no object
bind(path) ==
    /\ IF IsOk(inner_bind(path))
       THEN /\ new(NextFd, path, 0)
            /\ hist' = Made(Returned(hist, "bind", NextFd, inner_bind(path)), "bind", NextFd)
       ELSE /\ NoObject
            /\ hist' = Returned(hist, "bind", 0, inner_bind(path))
    /\ UNCHANGED <<shutRd, shutWr, queue, closes, readers, writers, asked, task>>

\* unbound()?: as bind, without an address
unbound ==
    /\ IF IsOk(inner_unbound)
       THEN /\ new(NextFd, Unnamed, 0)
            /\ hist' = Made(Returned(hist, "unbound", NextFd, inner_unbound), "unbound", NextFd)
       ELSE /\ NoObject
            /\ hist' = Returned(hist, "unbound", 0, inner_unbound)
    /\ UNCHANGED <<shutRd, shutWr, queue, closes, readers, writers, asked, task>>

\* the descriptor after NextFd
SecondFd == CHOOSE s \in Free \ {NextFd} : \A r \in Free \ {NextFd} : s <= r

\* the two sockets of a pair, a connected to pa and b to pb
paired(a, pa, b, pb) ==
    /\ fd' = [fd EXCEPT ![a] = "open", ![b] = "open"]
    /\ local' = [local EXCEPT ![a] = Unnamed, ![b] = Unnamed]
    /\ peer' = [peer EXCEPT ![a] = pa, ![b] = pb]
    /\ owners' = [owners EXCEPT ![a] = 1, ![b] = 1]
    /\ handles' = [handles EXCEPT ![a] = 1, ![b] = 1]
    /\ hist' = Made(Made(Returned(hist, "pair", a, inner_pair), "pair", a), "pair", b)

\* variant: two unnamed sockets, not connected
pair_unconnected ==
    /\ IF IsOk(inner_pair)
       THEN paired(NextFd, 0, SecondFd, 0)
       ELSE NoObject /\ hist' = Returned(hist, "pair", 0, inner_pair)
    /\ UNCHANGED <<shutRd, shutWr, queue, closes, readers, writers, asked, task>>

\* pair()?: two unnamed sockets connected to each other; an error of the
\* kernel returns before either new()
pair ==
    /\ IF IsOk(inner_pair)
       THEN paired(NextFd, SecondFd, SecondFd, NextFd)
       ELSE NoObject /\ hist' = Returned(hist, "pair", 0, inner_pair)
    /\ UNCHANGED <<shutRd, shutWr, queue, closes, readers, writers, asked, task>>

\* a handle of s exists and its descriptor is open
Usable(s) == fd[s] = "open" /\ handles[s] >= 1

\* a future borrowing a handle of s is alive
Busy(s) == \E t \in Task : task[t].s = s /\ task[t].st \in {"ready", "waiting"}

\* variant: the new handle wraps the same Watcher without counting as owner
Clone_uncounted(s) ==
    /\ Usable(s)
    /\ handles[s] < MaxOwners
    /\ handles' = [handles EXCEPT ![s] = @ + 1]
    /\ UNCHANGED <<kvars, owners, closes, asked, hist, wvars, task>>

\* #[derive(Clone)]: Arc::clone, one more owner of the same Watcher
Clone(s) ==
    /\ Usable(s)
    /\ handles[s] < MaxOwners
    /\ owners' = [owners EXCEPT ![s] = @ + 1]
    /\ handles' = [handles EXCEPT ![s] = @ + 1]
    /\ UNCHANGED <<kvars, closes, asked, hist, wvars, task>>

\* drop of a handle: the Arc's count goes down; the last owner drops the
\* Watcher, which deregisters and closes the descriptor
Drop(s) ==
    /\ handles[s] >= 1
    /\ handles[s] > 1 \/ ~Busy(s)
    /\ LET left == IF owners[s] > 0 THEN owners[s] - 1 ELSE 0
       IN /\ owners' = [owners EXCEPT ![s] = left]
          /\ handles' = [handles EXCEPT ![s] = @ - 1]
          /\ IF left = 0
             THEN /\ fd' = [fd EXCEPT ![s] = "closed"]
                  /\ closes' = [closes EXCEPT ![s] = @ + 1]
                  /\ queue' = [queue EXCEPT ![s] = <<>>]
                  /\ readers' = [readers EXCEPT ![s] = 0]
                  /\ writers' = [writers EXCEPT ![s] = 0]
             ELSE UNCHANGED <<fd, closes, queue, readers, writers>>
    /\ UNCHANGED <<local, peer, shutRd, shutWr, asked, hist, task>>

\* ------------------------------------------- UnixDatagram: connect, shutdown
\* variant: the socket is connected to the socket it names first
connect_any(s, path) ==
    /\ Usable(s)
    /\ peer' = IF IsOk(inner_connect(s, path))
               THEN [peer EXCEPT ![s] = CHOOSE d \in Sock : fd[d] = "open" /\ d # s]
               ELSE peer
    /\ hist' = Called(hist, "connect", s, path, inner_connect(s, path))
    /\ UNCHANGED <<fd, local, shutRd, shutWr, queue, hvars, wvars, task>>

\* connect(path): the kernel resolves the path and records the peer, or
\* fails and leaves the socket as it was; leaving a former peer for another
\* empties the receive queue
\* variant: the connect is awaited, the caller registered for write-readiness
connect_awaited(s, path) ==
    /\ Usable(s)
    /\ peer' = IF IsOk(inner_connect(s, path))
               THEN [peer EXCEPT ![s] = Lookup(path)] ELSE peer
    /\ queue' = IF IsOk(inner_connect(s, path)) /\ peer[s] \notin {0, Lookup(path)}
                THEN [queue EXCEPT ![s] = <<>>] ELSE queue
    /\ hist' = Called(hist, "connect", s, path, inner_connect(s, path))
    /\ writers' = [writers EXCEPT ![s] = 2]
    /\ UNCHANGED <<fd, local, shutRd, shutWr, hvars, readers, task>>

connect(s, path) ==
    /\ Usable(s)
    /\ peer' = IF IsOk(inner_connect(s, path))
               THEN [peer EXCEPT ![s] = Lookup(path)] ELSE peer
    /\ queue' = IF IsOk(inner_connect(s, path)) /\ peer[s] \notin {0, Lookup(path)}
                THEN [queue EXCEPT ![s] = <<>>] ELSE queue
    /\ hist' = Called(hist, "connect", s, path, inner_connect(s, path))
    /\ UNCHANGED <<fd, local, shutRd, shutWr, hvars, wvars, task>>

\* variant: the address of the socket itself
peer_addr_own(s) == inner_local_addr(s)

\* local_addr(), peer_addr(): answered by the kernel socket
local_addr(s) == inner_local_addr(s)
peer_addr(s) == inner_peer_addr(s)

\* variant: the descriptor is handed over, as into_raw_fd would
as_raw_fd_into(s) ==
    /\ Usable(s)
    /\ owners' = [owners EXCEPT ![s] = @ - 1]
    /\ handles' = [handles EXCEPT ![s] = @ - 1]
    /\ hist' = Returned(hist, "as_raw_fd", s, Ok(s, <<>>, "none"))
    /\ UNCHANGED <<kvars, closes, asked, wvars, task>>

\* impl AsRawFd: the number of the descriptor the Watcher holds
as_raw_fd(s) ==
    /\ Usable(s)
    /\ hist' = Returned(hist, "as_raw_fd", s, Ok(s, <<>>, "none"))
    /\ UNCHANGED <<kvars, hvars, wvars, task>>

\* a std UnixDatagram of another part of the program: bound at addr or
\* unnamed, connected to q or not, set non-blocking; no UnixDatagram owns it
StdSocket(addr, q) ==
    /\ Free # {}
    /\ addr \in Path => Bound(addr) = {}
    /\ q # 0 => fd[q] = "open" /\ unix_may_send(NextFd, q)
    /\ fd' = [fd EXCEPT ![NextFd] = "open"]
    /\ local' = [local EXCEPT ![NextFd] = addr]
    /\ peer' = [peer EXCEPT ![NextFd] = q]
    /\ hist' = Made(hist, "std", NextFd)
    /\ UNCHANGED <<shutRd, shutWr, queue, hvars, wvars, task>>

\* the descriptor s belongs to a std UnixDatagram
IsStd(s) == fd[s] = "open" /\ owners[s] = 0 /\ handles[s] = 0 /\ closes[s] = 0

\* variant: the conversion opens a socket of its own at the same address
from_std_fresh(s) ==
    /\ IsStd(s)
    /\ new(s, local[s], 0)
    /\ hist' = Made(Returned(hist, "from", s, Ok(s, <<>>, "none")), "from", s)
    /\ UNCHANGED <<shutRd, shutWr, queue, closes, readers, writers, asked, task>>

\* impl From<StdDatagram>: the descriptor of the std socket, as it is, in a
\* new Watcher
from_std(s) ==
    /\ IsStd(s)
    /\ new(s, local[s], peer[s])
    /\ hist' = Made(Returned(hist, "from", s, Ok(s, <<>>, "none")), "from", s)
    /\ UNCHANGED <<shutRd, shutWr, queue, closes, readers, writers, asked, task>>

How == {"Read", "Write", "Both"}
Halves(how) ==
    CASE how = "Read" -> {"rd"}
      [] how = "Write" -> {"wr"}
      [] how = "Both" -> {"rd", "wr"}

\* the half of the socket an operation of this kind uses
Half(kind) == IF kind \in {"recv_from", "recv"} THEN "rd" ELSE "wr"

\* the kernel disables the halves named by how, for good
inner_shutdown(s, how) ==
    /\ shutRd' = [shutRd EXCEPT ![s] = @ \/ "rd" \in Halves(how)]
    /\ shutWr' = [shutWr EXCEPT ![s] = @ \/ "wr" \in Halves(how)]

\* variant: the read half is shut whatever the caller names
shutdown_read(how) == "Read"

\* variant: the write half is shut whatever the caller names
shutdown_write(how) == "Write"

\* shutdown(how) hands how to the kernel socket as it is
shutdown_how(how) == how

\* variant: the shutdown is noted in the handle and not passed to the kernel
shutdown_local(s, how) ==
    /\ Usable(s)
    /\ asked' = [asked EXCEPT ![s] = @ \cup Halves(how)]
    /\ hist' = Called(hist, "shutdown", s, how, Ok(0, <<>>, "none"))
    /\ UNCHANGED <<fd, local, peer, shutRd, shutWr, queue, owners, handles, closes,
                   wvars, task>>

\* shutdown(how) on a handle of s; operations suspended on a half that how
\* names are marked
shutdown(s, how) ==
    /\ Usable(s)
    /\ inner_shutdown(s, shutdown_how(how))
    /\ asked' = [asked EXCEPT ![s] = @ \cup Halves(how)]
    /\ task' = [t \in Task |->
                  IF /\ task[t].s = s
                     /\ task[t].st = "waiting"
                     /\ Half(task[t].kind) \in Halves(how)
                     /\ task[t].shut = "no"
                  THEN [task[t] EXCEPT !.shut = "pending"] ELSE task[t]]
    /\ hist' = Called(hist, "shutdown", s, how, Ok(0, <<>>, "none"))
    /\ UNCHANGED <<fd, local, peer, queue, owners, handles, closes, wvars>>

\* ------------------------------------------------- tasks and the reactor
\* the direction of the operation of task t is shut down
DirShut(t) ==
    \/ task[t].kind \in RecvKinds /\ shutRd[task[t].s]
    \/ task[t].kind \in SendKinds /\ shutWr[task[t].s]

SameDir(k1, k2) == (k1 \in RecvKinds) = (k2 \in RecvKinds)

\* caller discipline: at most one pending operation per direction and socket
Exclusive(t, kind, s) ==
    \A u \in Task \ {t} :
        ~(task[u].st \in {"ready", "waiting"} /\ task[u].s = s
          /\ SameDir(task[u].kind, kind))

\* the history after operation o completed with the success r: a send has
\* passed its buffer, a receive sees the first r.n bytes of its buffer
\* (&data[..size]); room is the length of that buffer
Logged(o, r) ==
    IF Half(o.kind) = "wr"
    THEN [hist EXCEPT !.sent[o.s] = Append(@, o.buf)]
    ELSE [hist EXCEPT !.got[o.s] =
              Append(@, [data |-> SubSeq(r.data, 1, r.n), room |-> Len(o.buf)])]

\* the scheduler polls the future o of task t: future::poll_fn runs the
\* closure once; Pending suspends the task, Ready completes the await
Polled(t, o) ==
    LET out == PollOp(t, o)
    IN /\ queue' = out.queue
       /\ readers' = out.readers
       /\ writers' = out.writers
       /\ task' = [task EXCEPT ![t] =
                     [o EXCEPT !.attempts = @ + out.calls,
                               !.st = IF out.poll = "Pending" THEN "waiting" ELSE "done",
                               !.res = out.res]]
       /\ hist' = IF hist.on /\ out.poll = "Ready" /\ IsOk(out.res)
                  THEN Logged(o, out.res) ELSE hist

\* task t calls one of recv_from, recv, send_to, send and awaits it: the
\* await polls the new future at once
Start(t, kind, s, buf, dest) ==
    /\ task[t].st \in {"idle", "done"}
    /\ Usable(s)
    /\ Exclusive(t, kind, s)
    /\ Polled(t, [st |-> "ready", kind |-> kind, s |-> s, buf |-> buf,
                  dest |-> dest, res |-> NoRes, attempts |-> 0, wakes |-> 0,
                  shut |-> IF Half(kind) \in asked[s] THEN "atStart" ELSE "no"])
    /\ UNCHANGED <<fd, local, peer, shutRd, shutWr, hvars>>

\* the woken task t is polled again
Poll(t) ==
    /\ task[t].st = "ready"
    /\ Polled(t, task[t])
    /\ UNCHANGED <<fd, local, peer, shutRd, shutWr, hvars>>

\* the waker of task t is invoked
Wake(t) ==
    IF task[t].st = "waiting"
    THEN [task EXCEPT ![t].st = "ready", ![t].wakes = @ + 1]
    ELSE task

\* the model follows an operation for MaxWakes wakes, for one more that
\* finds the socket ready, and for the one after its direction was shut down
CanWake(t) ==
    task[t].st = "waiting" =>
        \/ task[t].wakes < MaxWakes
        \/ Kernel(task[t]).res # WouldBlock /\ task[t].wakes <= MaxWakes
        \/ DirShut(t) /\ task[t].wakes <= MaxWakes + 1

\* the reactor reports read-readiness of s (possibly spuriously)
ReadReady(s) ==
    /\ readers[s] # 0
    /\ CanWake(readers[s])
    /\ readers' = [readers EXCEPT ![s] = 0]
    /\ task' = Wake(readers[s])
    /\ UNCHANGED <<kvars, hvars, hist, writers>>

\* the reactor reports write-readiness of s (possibly spuriously)
WriteReady(s) ==
    /\ writers[s] # 0
    /\ CanWake(writers[s])
    /\ writers' = [writers EXCEPT ![s] = 0]
    /\ task' = Wake(writers[s])
    /\ UNCHANGED <<kvars, hvars, hist, readers>>

\* variant: the drop takes the task out of the Watcher
Cancel_deregister(t) ==
    /\ task[t].st = "waiting"
    /\ task' = [task EXCEPT ![t] = Idle]
    /\ readers' = [s \in Sock |-> IF readers[s] = t THEN 0 ELSE readers[s]]
    /\ writers' = [s \in Sock |-> IF writers[s] = t THEN 0 ELSE writers[s]]
    /\ UNCHANGED <<kvars, hvars, hist>>

\* the future of task t is dropped before it completed: the closure of
\* poll_fn holds only references, dropping it runs no code
Cancel(t) ==
    /\ task[t].st = "waiting"
    /\ task' = [task EXCEPT ![t] = Idle]
    /\ UNCHANGED <<kvars, hvars, hist, wvars>>

\* socket 1 bound at pA and connected to socket 2, which is bound at pB
\* (bind, bind, connect as in tests::echo)
InitBound ==
    /\ fd = [s \in Sock |-> IF s \in {1, 2} THEN "open" ELSE "free"]
    /\ local = [s \in Sock |-> CASE s = 1 -> "pA" [] s = 2 -> "pB" [] OTHER -> Unnamed]
    /\ peer = [s \in Sock |-> IF s = 1 THEN 2 ELSE 0]
    /\ shutRd = [s \in Sock |-> FALSE]
    /\ shutWr = [s \in Sock |-> FALSE]
    /\ queue = [s \in Sock |-> <<>>]
    /\ owners = [s \in Sock |-> IF s \in {1, 2} THEN 1 ELSE 0]
    /\ handles = [s \in Sock |-> IF s \in {1, 2} THEN 1 ELSE 0]
    /\ closes = [s \in Sock |-> 0]
    /\ readers = [s \in Sock |-> 0]
    /\ writers = [s \in Sock |-> 0]
    /\ asked = [s \in Sock |-> {}]
    /\ task = [t \in Task |-> Idle]

InitIO == InitBound /\ hist = Hist(FALSE)

\* the process at the other end uses its socket through blocking-style
\* std calls that succeed at once
PeerSends(s, m) ==
    /\ fd[s] = "open"
    /\ \E k \in {inner_send(s, m)} \cup {inner_send_to(s, m, p) : p \in Path} :
          /\ IsOk(k.res)
          /\ queue' = k.queue
    /\ UNCHANGED <<fd, local, peer, shutRd, shutWr, hvars, hist, wvars, task>>

PeerRecvs(s) ==
    /\ fd[s] = "open"
    /\ IsOk(inner_recv(s, Buffer).res)
    /\ queue' = inner_recv(s, Buffer).queue
    /\ UNCHANGED <<fd, local, peer, shutRd, shutWr, hvars, hist, wvars, task>>

Next ==
    \/ \E how \in How : shutdown(1, how)
    \/ \E t \in Task : Start(t, "recv_from", 1, Buffer, "none")
    \/ \E t \in Task : Start(t, "recv", 1, Buffer, "none")
    \/ \E p \in Path : Start(2, "send_to", 1, <<1, 2>>, p)
    \/ Start(2, "send", 1, <<1, 2>>, "none")
    \/ \E t \in Task : Poll(t)
    \/ \E s \in Sock : ReadReady(s)
    \/ \E s \in Sock : WriteReady(s)
    \/ \E t \in Task : Cancel(t)
    \/ PeerSends(2, <<1>>)
    \/ PeerRecvs(2)

Spec == InitIO /\ [][Next]_vars

\* construction, cloning and dropping of handles, with operations in flight
NextLife ==
    \/ \E p \in Path : bind(p)
    \/ unbound
    \/ pair
    \/ \E s \in Sock : Clone(s)
    \/ \E s \in Sock : Drop(s)
    \/ \E s \in Sock : Start(1, "recv", s, Buffer, "none")
    \/ \E t \in Task : Poll(t)
    \/ \E s \in Sock : ReadReady(s)
    \/ \E t \in Task : Cancel(t)

SpecLife == Init /\ [][NextLife]_vars

\* the reactor delivers the readiness that a shutdown raises, and the
\* scheduler polls every woken task
Fairness ==
    /\ \A t \in Task : WF_vars(Poll(t))
    /\ WF_vars(\E s \in Sock : shutRd[s] /\ ReadReady(s))
    /\ WF_vars(\E s \in Sock : shutWr[s] /\ WriteReady(s))

\* shutdown against operations in flight: task 1 receives on socket 1,
\* task 2 sends on it, the peer fills its queue
NextShut ==
    \/ \E how \in How : shutdown(1, how)
    \/ Start(1, "recv_from", 1, Buffer, "none")
    \/ Start(1, "recv", 1, Buffer, "none")
    \/ Start(2, "send_to", 1, <<1, 2>>, "pB")
    \/ Start(2, "send", 1, <<1, 2>>, "none")
    \/ \E t \in Task : Poll(t)
    \/ \E s \in Sock : ReadReady(s)
    \/ \E s \in Sock : WriteReady(s)
    \/ \E t \in Task : Cancel(t)
    \/ PeerSends(2, <<1>>)

FairSpec == InitIO /\ [][NextShut]_vars /\ Fairness

\* tests::pair, both ways round and in every order: task 1 holds the first
\* socket of the pair, task 2 the second, each sends and receives on its own
InitPair == InitNone /\ hist = Hist(TRUE)

PairSend(t, m) ==
    /\ Len(hist.sent[1]) + Len(hist.sent[2]) < MaxMsgs
    /\ Start(t, "send", t, m, "none")

PairRecv(t, b) == Start(t, "recv", t, b, "none")

NextPair ==
    \/ pair
    \/ \E t \in Task, m \in Msg : PairSend(t, m)
    \/ \E t \in Task, b \in Bufs : PairRecv(t, b)
    \/ \E t \in Task : Poll(t)
    \/ \E s \in Sock : ReadReady(s)
    \/ \E s \in Sock : WriteReady(s)

SpecPair == InitPair /\ [][NextPair]_vars

\* tests::echo against tests::server: socket 1 is the client's, bound at pA
\* and connected to socket 2, the server's, bound at pB
InitEcho == InitBound /\ hist = Hist(TRUE)

\* the server task (task 1) is at the head of its loop
AtLoopHead ==
    \/ task[1].st = "idle"
    \/ /\ task[1].st = "done" /\ IsOk(task[1].res)
       /\ \/ task[1].kind = "send_to"
          \/ task[1].kind = "recv_from" /\ task[1].res.addr \notin Path

\* while let Ok((size, addr)) = socket.recv_from(&mut data).await
ServerRecv(b) ==
    /\ AtLoopHead
    /\ Start(1, "recv_from", 2, b, "none")

\* if let Some(path) = addr.as_pathname(): send_to(&data[..size], path)
ServerEcho ==
    /\ task[1].st = "done" /\ task[1].kind = "recv_from"
    /\ IsOk(task[1].res) /\ task[1].res.addr \in Path
    /\ Start(1, "send_to", 2, SubSeq(task[1].res.data, 1, task[1].res.n),
             task[1].res.addr)

\* the client task (task 2) sends m to the server, by send or by send_to
ClientSend(m) ==
    /\ task[2].st = "idle" \/ (task[2].st = "done" /\ task[2].kind = "recv")
    /\ Len(hist.sent[1]) < MaxMsgs
    /\ \/ Start(2, "send", 1, m, "none")
       \/ Start(2, "send_to", 1, m, "pB")

\* socket.send(DATA).await?; socket.recv(&mut data).await?
ClientRecv(b) ==
    /\ task[2].st = "done" /\ Half(task[2].kind) = "wr" /\ IsOk(task[2].res)
    /\ Start(2, "recv", 1, b, "none")

NextEcho ==
    \/ \E b \in Bufs : ServerRecv(b)
    \/ ServerEcho
    \/ \E m \in Msg : ClientSend(m)
    \/ \E b \in Bufs : ClientRecv(b)
    \/ \E t \in Task : Poll(t)
    \/ \E s \in Sock : ReadReady(s)

\* spawned tasks run, woken tasks are polled, and the reactor reports a
\* socket that has a datagram queued
EchoFairness ==
    /\ WF_vars(\E b \in Bufs : ServerRecv(b))
    /\ WF_vars(ServerEcho)
    /\ WF_vars(\E b \in Bufs : ClientRecv(b))
    /\ \A t \in Task : WF_vars(Poll(t))
    /\ \A s \in Sock : WF_vars(queue[s] # <<>> /\ ReadReady(s))

SpecEcho == InitEcho /\ [][NextEcho]_vars /\ EchoFairness

\* a socket that connects, its peer and a stranger: socket 1 is bound at
\* pA, socket 2 at pB, socket 3 is unnamed; task 1 receives on socket 1,
\* task 2 sends on it, the other two are used by other processes
InitConn ==
    /\ fd = [s \in Sock |-> IF s \in {1, 2, 3} THEN "open" ELSE "free"]
    /\ local = [s \in Sock |-> CASE s = 1 -> "pA" [] s = 2 -> "pB" [] OTHER -> Unnamed]
    /\ peer = [s \in Sock |-> 0]
    /\ shutRd = [s \in Sock |-> FALSE]
    /\ shutWr = [s \in Sock |-> FALSE]
    /\ queue = [s \in Sock |-> <<>>]
    /\ owners = [s \in Sock |-> IF s \in {1, 2, 3} THEN 1 ELSE 0]
    /\ handles = [s \in Sock |-> IF s \in {1, 2, 3} THEN 1 ELSE 0]
    /\ closes = [s \in Sock |-> 0]
    /\ readers = [s \in Sock |-> 0]
    /\ writers = [s \in Sock |-> 0]
    /\ asked = [s \in Sock |-> {}]
    /\ task = [t \in Task |-> Idle]
    /\ hist = Hist(FALSE)

NextConn ==
    \/ \E p \in Path : connect(1, p)
    \/ Start(1, "recv_from", 1, Buffer, "none")
    \/ Start(1, "recv", 1, Buffer, "none")
    \/ Start(2, "send", 1, <<1, 2>>, "none")
    \/ Start(2, "send_to", 1, <<1, 2>>, "pB")
    \/ \E t \in Task : Poll(t)
    \/ \E s \in Sock : ReadReady(s)
    \/ \E s \in Sock : WriteReady(s)
    \/ \E s \in {2, 3} : PeerSends(s, <<1>>)
    \/ \E s \in {2, 3} : PeerRecvs(s)

SpecConn == InitConn /\ [][NextConn]_vars

\* every synchronous call beside a receive of task 1 that may suspend
InitSync == InitNone /\ hist = Hist(FALSE)

NextSync ==
    \/ \E p \in Path : bind(p)
    \/ unbound
    \/ pair
    \/ StdSocket(Unnamed, 0)
    \/ \E s \in Sock : from_std(s)
    \/ \E s \in Sock : connect(s, "pA")
    \/ \E s \in Sock : as_raw_fd(s)
    \/ \E s \in Sock : shutdown(s, "Both")
    \/ Start(1, "recv", 1, Buffer, "none")
    \/ Poll(1)
    \/ ReadReady(1)

SpecSync == InitSync /\ [][NextSync]_vars

\* the constructors, the result of each call recorded, until no descriptor
\* or path is left; handles are dropped in between
InitFail == InitNone /\ hist = [Hist(FALSE) EXCEPT !.ret = NoCall]

NextFail ==
    \/ \E p \in Path : bind(p)
    \/ unbound
    \/ pair
    \/ \E s \in Sock : Drop(s)

SpecFail == InitFail /\ [][NextFail]_vars

\* tests::as_raw_fd: socket 1 is bound at pA, the server's socket 2 at pB;
\* the number that as_raw_fd returned is used through a std UnixDatagram
\* (from_raw_fd, connect, send, recv) that gives it back with into_raw_fd
\* and so never closes it
InitRaw ==
    /\ fd = [s \in Sock |-> IF s \in {1, 2} THEN "open" ELSE "free"]
    /\ local = [s \in Sock |-> CASE s = 1 -> "pA" [] s = 2 -> "pB" [] OTHER -> Unnamed]
    /\ peer = [s \in Sock |-> 0]
    /\ shutRd = [s \in Sock |-> FALSE]
    /\ shutWr = [s \in Sock |-> FALSE]
    /\ queue = [s \in Sock |-> <<>>]
    /\ owners = [s \in Sock |-> IF s \in {1, 2} THEN 1 ELSE 0]
    /\ handles = [s \in Sock |-> IF s \in {1, 2} THEN 1 ELSE 0]
    /\ closes = [s \in Sock |-> 0]
    /\ readers = [s \in Sock |-> 0]
    /\ writers = [s \in Sock |-> 0]
    /\ asked = [s \in Sock |-> {}]
    /\ task = [t \in Task |-> Idle]
    /\ hist = [Hist(FALSE) EXCEPT !.ret = NoCall]

\* the caller holds the number of a descriptor that is still open
HasRaw == hist.ret.op = "as_raw_fd" /\ IsOk(hist.ret.res) /\ fd[hist.ret.res.n] = "open"
Raw == hist.ret.res.n

\* raw_socket.connect(server_addr)
RawConnect(path) ==
    /\ HasRaw
    /\ IsOk(inner_connect(Raw, path))
    /\ peer' = [peer EXCEPT ![Raw] = Lookup(path)]
    /\ UNCHANGED <<fd, local, shutRd, shutWr, queue, hvars, hist, wvars, task>>

\* raw_socket.send(DATA), raw_socket.recv(&mut data)
RawSend(m) == HasRaw /\ PeerSends(Raw, m)
RawRecv == HasRaw /\ PeerRecvs(Raw)

NextRaw ==
    \/ as_raw_fd(1)
    \/ Clone(1)
    \/ Drop(1)
    \/ \E p \in Path : RawConnect(p)
    \/ RawSend(<<1>>)
    \/ RawRecv
    \/ PeerSends(2, <<1, 2>>)
    \/ PeerRecvs(2)
    \/ Start(1, "recv", 1, Buffer, "none")
    \/ Poll(1)
    \/ ReadReady(1)

SpecRaw == InitRaw /\ [][NextRaw]_vars

\* tests::from_std beside tests::echo: the server's socket 2 is bound at
\* pB; the client's socket is made natively (bind, then connect) or is a
\* std socket, bound and possibly connected, that is converted; then the
\* client and the server run as in tests::echo
InitFrom ==
    /\ fd = [s \in Sock |-> IF s = 2 THEN "open" ELSE "free"]
    /\ local = [s \in Sock |-> IF s = 2 THEN "pB" ELSE Unnamed]
    /\ peer = [s \in Sock |-> 0]
    /\ shutRd = [s \in Sock |-> FALSE]
    /\ shutWr = [s \in Sock |-> FALSE]
    /\ queue = [s \in Sock |-> <<>>]
    /\ owners = [s \in Sock |-> IF s = 2 THEN 1 ELSE 0]
    /\ handles = [s \in Sock |-> IF s = 2 THEN 1 ELSE 0]
    /\ closes = [s \in Sock |-> 0]
    /\ readers = [s \in Sock |-> 0]
    /\ writers = [s \in Sock |-> 0]
    /\ asked = [s \in Sock |-> {}]
    /\ task = [t \in Task |-> Idle]
    /\ hist = Hist(TRUE)

\* the natively made client connects to the server before it sends
NativeConnect == hist.made[1] = "bind" /\ task[2].st = "idle" /\ connect(1, "pB")

NextFrom ==
    \/ bind("pA")
    \/ NativeConnect
    \/ \E q \in {0, 2} : StdSocket("pA", q)
    \/ from_std(1)
    \/ NextEcho

SpecFrom == InitFrom /\ [][NextFrom]_vars

\* one poll of the Watcher as the kernel sees it, in two steps: the attempt
\* and, after a would-block, the registration of the waiter; a datagram can
\* arrive, and room can appear, between the two
AttemptOnly(t, o) ==
    LET out == PollOp(t, o)
    IN /\ queue' = out.queue
       /\ task' = [task EXCEPT ![t] =
                     [o EXCEPT !.attempts = @ + out.calls,
                               !.st = IF out.poll = "Pending" THEN "blocked" ELSE "done",
                               !.res = out.res]]
       /\ UNCHANGED <<fd, local, peer, shutRd, shutWr, hvars, hist, readers, writers>>

\* variant: the waiter is parked without a registration when the socket
\* has become ready since the attempt
Registers_unless_ready(t) ==
    /\ task[t].st = "blocked"
    /\ LET k == KOut(IF Kernel(task[t]).res = WouldBlock THEN WouldBlock ELSE NoRes, queue)
           out == IF Half(task[t].kind) = "rd"
                  THEN poll_read_with(t, task[t].s, k)
                  ELSE poll_write_with(t, task[t].s, k)
       IN /\ readers' = out.readers
          /\ writers' = out.writers
    /\ task' = [task EXCEPT ![t].st = "waiting"]
    /\ UNCHANGED <<kvars, hvars, hist>>

\* the second step: the Watcher registers the task whose attempt found the
\* kernel not ready, and the task is suspended
Registers(t) ==
    /\ task[t].st = "blocked"
    /\ LET k == KOut(WouldBlock, queue)
           out == IF Half(task[t].kind) = "rd"
                  THEN poll_read_with(t, task[t].s, k)
                  ELSE poll_write_with(t, task[t].s, k)
       IN /\ readers' = out.readers
          /\ writers' = out.writers
    /\ task' = [task EXCEPT ![t].st = "waiting"]
    /\ UNCHANGED <<kvars, hvars, hist>>

\* task t calls the operation and its future is polled for the first time
Attempts(t, kind, buf) ==
    /\ task[t].st \in {"idle", "done"}
    /\ AttemptOnly(t, [st |-> "ready", kind |-> kind, s |-> 1, buf |-> buf,
                       dest |-> "none", res |-> NoRes, attempts |-> 0, wakes |-> 0,
                       shut |-> "no"])

\* the woken task t is polled again
Retries(t) == task[t].st = "ready" /\ AttemptOnly(t, task[t])

\* a datagram of the peer arrives at socket 1
Arrives(m) == PeerSends(2, m) /\ queue'[2] = queue[2]

\* one receive and one send at a time on socket 1, connected to socket 2:
\* task 1 receives, task 2 sends; the peer sends to socket 1 and reads what
\* it was sent
NextWake ==
    \/ \E k \in RecvKinds : Attempts(1, k, Buffer)
    \/ Attempts(2, "send", <<1, 2>>)
    \/ \E t \in Task : Retries(t)
    \/ \E t \in Task : Registers(t)
    \/ ReadReady(1)
    \/ WriteReady(1)
    \/ \E m \in Msg : Arrives(m)
    \/ PeerRecvs(2)

\* a registered waiter of a socket that is ready is woken, a woken task is
\* polled, and a task whose attempt would block gets registered
WakeFairness ==
    /\ \A t \in Task : WF_vars(Retries(t)) /\ WF_vars(Registers(t))
    /\ WF_vars(queue[1] # <<>> /\ ReadReady(1))
    /\ WF_vars(Len(queue[2]) < QCap /\ WriteReady(1))

SpecWake == InitIO /\ [][NextWake]_vars /\ WakeFairness

\* a socket and its clone: task 1 holds the first handle of socket 1, task 2
\* the clone; both may receive at once
Holds(t) == Usable(1) /\ handles[1] >= t

CloneRecv(t) ==
    /\ Holds(t)
    /\ task[t].st \in {"idle", "done"}
    /\ Polled(t, [st |-> "ready", kind |-> "recv", s |-> 1, buf |-> Buffer,
                  dest |-> "none", res |-> NoRes, attempts |-> 0, wakes |-> 0,
                  shut |-> IF "rd" \in asked[1] THEN "atStart" ELSE "no"])
    /\ UNCHANGED <<fd, local, peer, shutRd, shutWr, hvars>>

CloneSend(t) == Holds(t) /\ Start(t, "send", 1, <<1, 2>>, "none")

NextClone ==
    \/ Clone(1)
    \/ Drop(1)
    \/ connect(1, "pB")
    \/ shutdown(1, "Write")
    \/ \E t \in Task : CloneRecv(t)
    \/ \E t \in Task : CloneSend(t)
    \/ \E t \in Task : Poll(t)
    \/ ReadReady(1)
    \/ WriteReady(1)
    \/ PeerSends(2, <<1>>)
    \/ PeerRecvs(2)

SpecClone == InitConn /\ [][NextClone]_vars

\* tests::unbound, with any sockets to connect to: the sockets are made,
\* connected and sent on in any order
InitMade == InitNone /\ hist = Hist(TRUE)

SendOnce(s) ==
    /\ hist.made[s] = "unbound"
    /\ \A r \in Sock : Len(hist.sent[r]) < MaxMsgs - 1
    /\ Start(1, "send", s, <<1>>, "none")

NextAddr ==
    \/ \E p \in Path : bind(p)
    \/ unbound
    \/ \E s \in Sock, p \in Path : connect(s, p)
    \/ \E s \in Sock : SendOnce(s)

SpecAddr == InitMade /\ [][NextAddr]_vars

\* ------------------------------------------------------------ properties
\* steps of task t, told from the states before and after
IsStart(t) ==
    /\ task[t].st \in {"idle", "done"}
    /\ task'[t].st \in {"waiting", "done"}
    /\ task'[t] # task[t]
IsPoll(t) == task[t].st = "ready" /\ task'[t].st \in {"waiting", "done"}
IsAttempt(t) == IsStart(t) \/ IsPoll(t)
IsCancel(t) == task[t].st = "waiting" /\ task'[t].st = "idle"
\* attempts made before the step
Before(t) == IF IsPoll(t) THEN task[t].attempts ELSE 0

\* task t is registered with the Watcher for the half its operation uses
Registered(t) ==
    IF Half(task[t].kind) = "rd"
    THEN readers[task[t].s] = t
    ELSE writers[task[t].s] = t

\* C1: no operation completes with a would-block error; an attempt that the
\* kernel answers with would-block leaves the awaitable pending.
C1_NeverWouldBlock ==
    /\ [](\A t \in Task : task[t].res # WouldBlock)
    /\ [][\A t \in Task :
            (IsAttempt(t) /\ Kernel(task'[t]).res = WouldBlock)
                => (task'[t].st = "waiting" /\ task'[t].res = NoRes)]_vars

C1_Witness ==
    \E t \in Task : task[t].st = "done" /\ task[t].wakes >= 1 /\ IsOk(task[t].res)

\* C2: an attempt the kernel answers with success or with an error other
\* than would-block completes the awaitable at that attempt with that very
\* result.
C2_Verbatim ==
    [][\A t \in Task :
         (IsAttempt(t) /\ Kernel(task'[t]).res # WouldBlock)
             => /\ task'[t].st = "done"
                /\ task'[t].res = Kernel(task'[t]).res
                /\ task'[t].attempts = Before(t) + 1]_vars

C2_Witness ==
    /\ \E t \in Task : task[t].st = "done" /\ IsErr(task[t].res)
    /\ \E t \in Task : task[t].st = "done" /\ IsOk(task[t].res) /\ task[t].res.n > 0

\* C3: kernel attempts of an operation = 1 + wakes it received; a suspended
\* operation makes no kernel call, and an attempt that would block again
\* registers again.
C3_OneAttemptPerWake ==
    /\ [](\A t \in Task :
            /\ task[t].st \in {"waiting", "done"} => task[t].attempts = task[t].wakes + 1
            /\ task[t].st = "ready" => task[t].attempts = task[t].wakes)
    /\ [][\A t \in Task :
            /\ (task[t].st = "waiting" /\ task'[t].st = "waiting")
                   => task'[t].attempts = task[t].attempts
            /\ (IsPoll(t) /\ task'[t].st = "waiting") => Registered(t)']_vars

C3_Witness ==
    \E t \in Task : task[t].st = "waiting" /\ task[t].attempts >= 2 /\ Registered(t)

C7_Original ==
    [][\A t \in Task :
         IsCancel(t) =>
             /\ \A s \in Sock : readers'[s] # t /\ writers'[s] # t
             /\ UNCHANGED <<kvars, hvars>>]_vars

\* C7: dropping a suspended operation changes neither the socket (queues,
\* peer, shutdown state, owners) nor the Watcher: the registration made by
\* the last attempt stays where it is, and no other task is touched.
C7_CancelFrame ==
    [][\A t \in Task :
         IsCancel(t) =>
             /\ UNCHANGED <<kvars, hvars, hist, wvars>>
             /\ Registered(t)
             /\ \A u \in Task \ {t} : task'[u] = task[u]]_vars

C7_Witness ==
    \E t \in Task : task[t].st = "idle" /\ (readers[1] = t \/ writers[1] = t)

\* C8: a suspended receive and a suspended send on one socket keep their
\* own registrations; waking one leaves the other suspended and registered.
C8_Coexist ==
    /\ [](\A t \in Task : task[t].st = "waiting" => Registered(t))
    /\ [][\A t, u \in Task :
            (/\ t # u
             /\ task[t].st = "waiting" /\ task[u].st = "waiting"
             /\ task[t].s = task[u].s
             /\ Half(task[t].kind) # Half(task[u].kind)
             /\ task'[t].st = "ready")
                => (task'[u] = task[u] /\ Registered(u)')]_vars

C8_Witness ==
    \E t, u \in Task :
        /\ task[t].st = "waiting" /\ Half(task[t].kind) = "rd"
        /\ task[u].st = "waiting" /\ Half(task[u].kind) = "wr"
        /\ task[t].s = task[u].s
        /\ task[t].wakes >= 1 /\ task[u].wakes >= 1

\* C6: the descriptor of a socket is open as long as a handle of it is alive,
\* and is closed once, by the drop of the last handle.
C6_SharedDescriptor ==
    \A s \in Sock :
        /\ handles[s] >= 1 => (fd[s] = "open" /\ closes[s] = 0)
        /\ (handles[s] = 0 /\ fd[s] # "free") => (fd[s] = "closed" /\ closes[s] = 1)
        /\ fd[s] = "free" => (handles[s] = 0 /\ closes[s] = 0)
        /\ owners[s] = handles[s]

C6_Witness ==
    \E s, r \in Sock :
        /\ handles[s] = MaxOwners /\ fd[s] = "open"
        /\ handles[r] = 0 /\ fd[r] = "closed" /\ closes[r] = 1

\* the first n bytes of m, all of m when it is not longer
Take(m, n) == IF Len(m) <= n THEN m ELSE SubSeq(m, 1, n)

\* what was sent on socket s has arrived at socket d, in order: the
\* receives on d saw Seen(sent payload, entry of the history), the rest is
\* queued at d unchanged
Arrived(s, d, Seen(_, _)) ==
    /\ Len(hist.got[d]) + Len(queue[d]) = Len(hist.sent[s])
    /\ \A i \in 1..Len(hist.got[d]) :
          hist.got[d][i].data = Seen(hist.sent[s][i], hist.got[d][i])
    /\ \A i \in 1..Len(queue[d]) :
          /\ queue[d][i].data = hist.sent[s][Len(hist.got[d]) + i]
          /\ queue[d][i].from = s

Whole(m, g) == m
Fitted(m, g) == Take(m, g.room)

\* no operation on the pair failed
PairNoError == \A t \in Task : task[t].st = "done" => IsOk(task[t].res)

\* C9 as claimed: on the sockets of pair(), every receive on one socket
\* returns exactly the payload sent on the other, in both directions, with
\* no connect and no address, whichever of the two started first.
C9_Original ==
    /\ PairNoError
    /\ Arrived(1, 2, Whole) /\ Arrived(2, 1, Whole)

\* C9: on the sockets of pair(), with no connect and no address, no send and
\* no receive fails, and every receive on one socket returns the payload
\* sent on the other, in order, cut to the length of the receive buffer:
\* exactly the payload whenever the buffer is at least as long.
C9_PairSymmetry ==
    /\ PairNoError
    /\ Arrived(1, 2, Fitted) /\ Arrived(2, 1, Fitted)

C9_Witness ==
    /\ \E i \in 1..Len(hist.got[2]) : hist.got[2][i].data = <<1, 2>>
    /\ \E i \in 1..Len(hist.got[1]) : hist.got[1][i].data = <<1, 2>>
    /\ \E t \in Task : /\ task[t].kind = "recv" /\ task[t].st = "done"
                       /\ task[t].wakes >= 1 /\ task[t].res.n = 2

\* the client's send of this round has completed
ClientSent ==
    /\ task[2].st = "done" /\ Half(task[2].kind) = "wr" /\ IsOk(task[2].res)
\* the client's receive of this round has completed
ClientGot ==
    /\ task[2].st = "done" /\ task[2].kind = "recv"
\* the payload of the round that the client's last receive closed
RoundSent == hist.sent[1][Len(hist.sent[1])]
\* the client's receive returned without error, with Seen(payload sent)
ClientSaw(Seen(_, _)) ==
    /\ IsOk(task[2].res)
    /\ Len(hist.got[1]) = Len(hist.sent[1])
    /\ Len(hist.got[2]) = Len(hist.sent[1])
    /\ SubSeq(task[2].res.data, 1, task[2].res.n)
         = Seen(RoundSent, Len(hist.sent[1]))

AsSent(m, i) == m
ThroughBuffers(m, i) == Take(Take(m, hist.got[2][i].room), hist.got[1][i].room)

\* C10 as claimed: after the client has sent M to the echoing server, its
\* next receive completes and returns exactly M.
C10_Original ==
    /\ ClientSent ~> (ClientGot /\ ClientSaw(AsSent))
    /\ [](ClientGot => ClientSaw(AsSent))

\* C10: after the client has sent M to the echoing server, its next receive
\* completes, without error, and returns M cut to the server's receive
\* buffer and then to its own: exactly M when both buffers are at least as
\* long as M.
C10_EchoRoundTrip ==
    /\ ClientSent ~> (ClientGot /\ ClientSaw(ThroughBuffers))
    /\ [](ClientGot => ClientSaw(ThroughBuffers))

C10_Witness ==
    /\ ClientGot /\ task[2].wakes >= 1
    /\ task[2].res.n = 2 /\ task[2].res.data = <<1, 2>>
    /\ Len(hist.sent[1]) = MaxMsgs

\* the address a query reports
Reports(a) == Ok(0, <<>>, a)

\* C11: a socket made by unbound() reports an unnamed local address, also
\* after connect and send; a successful connect(Q) makes peer_addr() report
\* the path Q, and it keeps reporting Q until the next successful connect.
C11_AddressVisibility ==
    /\ [](\A s \in Sock :
            Usable(s) /\ hist.made[s] = "unbound" => local_addr(s) = Reports(Unnamed))
    /\ [][\A s \in Sock :
            /\ \A p \in Path :
                  connect(s, p) /\ IsOk(inner_connect(s, p)) => peer_addr(s)' = Reports(p)
            /\ Usable(s) /\ ~(\E p \in Path : connect(s, p))
                  => peer_addr(s)' = peer_addr(s)]_vars

C11_Witness ==
    \E s \in Sock :
        /\ hist.made[s] = "unbound" /\ Len(hist.sent[s]) >= 1
        /\ local_addr(s) = Reports(Unnamed) /\ peer_addr(s) = Reports("pB")

\* task t completes an operation of kind k on socket s, successfully
Completes(t, k, s) ==
    /\ IsAttempt(t) /\ task'[t].st = "done" /\ IsOk(task'[t].res)
    /\ task'[t].kind = k /\ task'[t].s = s
\* the step queues one datagram on d, sent by s
Queued(s, d) ==
    /\ Len(queue'[d]) = Len(queue[d]) + 1
    /\ queue'[d][Len(queue'[d])].from = s
    /\ SubSeq(queue'[d], 1, Len(queue[d])) = queue[d]
\* the step queues a datagram on d
Grows(d) == Len(queue'[d]) > Len(queue[d])

\* connect(Q) connects to the socket bound at Q, and a send goes there and
\* nowhere else; send_to still reaches the path it names
ConnectedSend(s) ==
    /\ \A p \in Path :
          connect(s, p) /\ IsOk(inner_connect(s, p)) => peer'[s] = Lookup(p)
    /\ \A t \in Task :
          Completes(t, "send", s) =>
              /\ peer[s] # 0 /\ Queued(s, peer[s])
              /\ \A d \in Sock \ {peer[s]} : queue'[d] = queue[d]
    /\ \A t \in Task :
          Completes(t, "send_to", s) =>
              /\ Queued(s, Lookup(task'[t].dest))
              /\ \A d \in Sock \ {Lookup(task'[t].dest)} : queue'[d] = queue[d]
\* while s is connected, only its peer adds to its queue
AdmitsPeerOnly(s) ==
    peer[s] # 0 /\ peer'[s] = peer[s] /\ Grows(s) => Queued(peer[s], s)

SyncCall ==
    \/ \E p \in Path : bind(p)
    \/ unbound
    \/ pair
    \/ \E s \in Sock : from_std(s)
    \/ \E s \in Sock, p \in Path : connect(s, p)
    \/ \E s \in Sock : as_raw_fd(s)
    \/ \E s \in Sock, how \in How : shutdown(s, how)

\* task t is suspended by the step
Suspends(t) == task[t].st # "waiting" /\ task'[t].st = "waiting"

\* C13: a task is suspended, and a waiter registered, only by an attempt of
\* one of the four asynchronous operations that the kernel answers with
\* would-block; a step of bind, unbound, pair, connect, shutdown, the
\* conversion from std or as_raw_fd registers no waiter and changes the
\* position of no task.
C13_SuspendOnlyOnWouldBlock ==
    [][/\ \A t \in Task :
             Suspends(t) => /\ IsAttempt(t)
                            /\ task'[t].kind \in Kinds
                            /\ Kernel(task'[t]).res = WouldBlock
       /\ \A s \in Sock :
             /\ (readers'[s] # readers[s] /\ readers'[s] # 0) => Suspends(readers'[s])
             /\ (writers'[s] # writers[s] /\ writers'[s] # 0) => Suspends(writers'[s])
       /\ SyncCall => /\ UNCHANGED <<readers, writers>>
                       /\ \A t \in Task : /\ task'[t].st = task[t].st
                                           /\ task'[t].attempts = task[t].attempts]_vars

C13_Witness ==
    /\ task[1].st = "waiting"
    /\ readers[1] = 1
    /\ peer[1] # 0
    /\ \E s \in Sock : shutWr[s]
    /\ \E s \in Sock : fd[s] = "open" /\ handles[s] = 0

\* a step in which bind, unbound or pair returns an error
FailedConstruction ==
    /\ \/ \E p \in Path : bind(p) /\ IsErr(inner_bind(p))
       \/ unbound /\ IsErr(inner_unbound)
       \/ pair /\ IsErr(inner_pair)
    /\ hist'.ret.tick # hist.ret.tick

\* C14: a call of bind, unbound or pair that fails returns the kernel's
\* error from that very call and leaves what was there before: no descriptor
\* opened, no Watcher made, no handle, for pair neither socket.
C14_FailedConstruction ==
    [][FailedConstruction =>
          /\ IsErr(hist'.ret.res)
          /\ hist'.ret.op \in {"bind", "unbound", "pair"}
          /\ hist'.ret.s = 0
          /\ UNCHANGED <<fd, local, peer, owners, handles, closes, readers, writers>>
          /\ Free' = Free]_vars

C14_Witness ==
    /\ hist.ret.op = "pair"
    /\ IsErr(hist.ret.res)
    /\ Cardinality(Free) = 1
    /\ \E s \in Sock : Usable(s) /\ local[s] # Unnamed

\* the step is a call of as_raw_fd that returns
ReturnsRawFd == hist'.ret.op = "as_raw_fd" /\ hist'.ret.tick # hist.ret.tick

\* C15: as_raw_fd returns the number of the very descriptor of the socket
\* and changes nothing: no owner more or less, no descriptor opened or
\* closed; with a caller that never closes the number, the descriptor is
\* open while an owner lives and is closed once, by the drop of the last
\* owner.
C15_BorrowedDescriptor ==
    /\ [][ReturnsRawFd =>
             /\ hist'.ret.res = Ok(hist'.ret.s, <<>>, "none")
             /\ Usable(hist'.ret.s)
             /\ UNCHANGED <<kvars, hvars, wvars, task>>
             /\ Free' = Free]_vars
    /\ [](\A s \in Sock :
            /\ owners[s] >= 1 => (fd[s] = "open" /\ closes[s] = 0)
            /\ closes[s] <= 1)
    /\ [][\A s \in Sock :
             closes'[s] # closes[s] =>
                 (owners[s] = 1 /\ owners'[s] = 0 /\ fd'[s] = "closed")]_vars

C15_Witness ==
    /\ hist.ret.op = "as_raw_fd"
    /\ hist.ret.res.n = 1
    /\ peer[1] = 2
    /\ queue[2] # <<>>
    /\ fd[1] = "closed"
    /\ closes[1] = 1

\* socket s as a constructor leaves it: bound at a, connected to q, one
\* handle, one owner, nothing shut down, no waiter
Fresh(s, a, q) ==
    /\ fd[s] = "open" /\ local[s] = a /\ peer[s] = q
    /\ owners[s] = 1 /\ handles[s] = 1 /\ closes[s] = 0
    /\ ~shutRd[s] /\ ~shutWr[s] /\ asked[s] = {}
    /\ readers[s] = 0 /\ writers[s] = 0

\* nothing but socket s has changed
OnlySocket(s) ==
    \A r \in Sock \ {s} :
        /\ fd'[r] = fd[r] /\ local'[r] = local[r] /\ peer'[r] = peer[r]
        /\ owners'[r] = owners[r] /\ handles'[r] = handles[r]

\* C16: the conversion of a non-blocking std socket leaves the socket as the
\* native constructors leave one with the same address and peer (bind makes
\* it at its path, connect gives it its peer, the conversion keeps both and
\* what is queued), and on the socket so made, natively or by conversion,
\* every receive of the client returns what it sent, cut to the buffers.
C16_ConvertedAsNative ==
    /\ [][/\ bind("pA") /\ IsOk(inner_bind("pA"))
               => \E s \in {NextFd} : Fresh(s, "pA", 0)' /\ OnlySocket(s)
          /\ NativeConnect /\ IsOk(inner_connect(1, "pB"))
               => Fresh(1, "pA", 2)' /\ OnlySocket(1)
          /\ \A s \in Sock :
                from_std(s) => /\ \E a \in {local[s]}, q \in {peer[s]} : Fresh(s, a, q)'
                               /\ OnlySocket(s)
                               /\ UNCHANGED <<queue, shutRd, shutWr, task>>]_vars
    /\ [](\A s \in Sock :
            Usable(s) /\ hist.made[s] \in {"bind", "from"} =>
                /\ local[s] = "pA"
                /\ peer[s] \in {0, 2}
                /\ ClientGot => ClientSaw(ThroughBuffers))

C16_Witness ==
    /\ hist.made[1] = "from"
    /\ peer[1] = 2
    /\ ClientGot /\ task[2].wakes >= 1
    /\ task[2].res.n = 2 /\ task[2].res.data = <<1, 2>>
    /\ Len(hist.sent[1]) = MaxMsgs

\* the attempt of task t in this step finds the kernel not ready
Blocked(t) == IsAttempt(t) /\ task'[t].st = "waiting"

\* C17: an attempt of recv_from or recv that would block registers the task
\* for read-readiness of its socket and changes no registration for
\* write-readiness; an attempt of send_to or send that would block registers
\* it for write-readiness and changes no registration for read-readiness.
C17_DirectionOfInterest ==
    [][\A t \in Task :
         /\ (Blocked(t) /\ task'[t].kind \in RecvKinds)
               => /\ readers' = [readers EXCEPT ![task'[t].s] = t]
                  /\ writers' = writers
         /\ (Blocked(t) /\ task'[t].kind \in SendKinds)
               => /\ writers' = [writers EXCEPT ![task'[t].s] = t]
                  /\ readers' = readers]_vars

C17_Witness ==
    \E t, u \in Task :
        /\ task[t].st = "waiting" /\ task[t].kind \in RecvKinds
        /\ readers[task[t].s] = t /\ writers[task[t].s] = u
        /\ task[u].st = "waiting" /\ task[u].kind \in SendKinds
        /\ task[t].wakes >= 1 /\ task[u].wakes >= 1

\* task t has made its attempt and has not completed
Suspended(t) == task[t].st \in {"blocked", "waiting"}

C19_ClonesShareSocket ==
    /\ [][/\ ((\E p \in Path : connect(1, p)) \/ (\E how \in How : shutdown(1, how)))
               => UNCHANGED <<owners, handles, closes, fd>>
          /\ \A p \in Path :
                connect(1, p) /\ IsOk(inner_connect(1, p)) => peer_addr(1)' = Reports(p)
          /\ \A how \in {"Write", "Both"} : shutdown(1, how) => shutWr'[1]
          /\ \A t \in Task :
                Completes(t, "recv", 1) /\ queue[1] # <<>> =>
                    /\ queue'[1] = Tail(queue[1])
                    /\ SubSeq(task'[t].res.data, 1, task'[t].res.n) = Head(queue[1]).data
                    /\ \A u \in Task \ {t} : task'[u] = task[u]]_vars
    /\ [](\A t \in Task :
            (task[t].kind = "send" /\ task[t].shut = "atStart"
                /\ task[t].st \in {"waiting", "done"})
                => (task[t].st = "done" /\ IsErr(task[t].res)))

C19_Witness ==
    /\ handles[1] = 2 /\ owners[1] = 2
    /\ peer[1] = 2 /\ shutWr[1] /\ ~shutRd[1]
    /\ task[1].kind = "send" /\ task[1].st = "done" /\ IsErr(task[1].res)
    /\ task[2].kind = "recv" /\ task[2].st = "done" /\ task[2].res.n = 1
    /\ task[2].wakes >= 1

====
